---- MODULE Spec2Model ----
(***************************************************************************)
(* AR navigation (projectAR): the App shell, the useGeolocation hook, the  *)
(* NavigationView session and the MapService router, as a state machine.   *)
(*                                                                         *)
(* Units.  A Location is a record of two integers; one unit of latitude or *)
(* longitude is one decimetre on the ground (a small area, flat).          *)
(* Distances are whole decimetres, durations whole deciseconds.            *)
(***************************************************************************)
EXTENDS Integers, Sequences, FiniteSets, Bags, TLC

VARIABLES
    appState,             \* App: 'permissions' | 'map-picker' | 'navigation'
    destination,          \* App: Location | null
    destinationName,      \* App: string
    permissionsRequested, \* App: boolean
    cameraPermission,     \* useCamera: hasPermission
    cameraLoading,        \* useCamera: isLoading
    permissionCall,       \* the suspended handlePermissionRequest, with the values its closure captured
    location,             \* useGeolocation: Location | null
    heading,              \* useGeolocation: degrees
    locationError,        \* useGeolocation: error (null or a message)
    locationLoading,      \* useGeolocation: loading
    positionRequest,      \* the one getCurrentPosition request of the hook's mount: is it outstanding
    navState,             \* NavigationView: NavigationState
    route,                \* NavigationView: Route | null
    isCalculatingRoute,   \* NavigationView
    routeError,           \* NavigationView: null or a message
    hasArrived,           \* NavigationView
    effectsDue,           \* effects React has scheduled after the last render
    pending,              \* route requests in flight (a bag: the same request may be in flight twice)
    remoteAnswers,        \* does the routing service answer at all in this run
    routerCalls,          \* mapService.calculateRoute invocations of the current session
    arrivals,             \* setHasArrived(true) calls of the current session
    wasNear,              \* has a position of the current session been within the arrival threshold
    staleSettled,         \* has a request of an earlier session settled during the current one
    backed,               \* the permission screen was entered by the back action, no request since
    call                  \* one call of a function observed in isolation (RouterSpec, ArrowSpec)

appVars  == <<appState, destination, destinationName, permissionsRequested>>
camVars  == <<cameraPermission, cameraLoading, permissionCall>>
geoVars  == <<location, heading, locationError, locationLoading, positionRequest>>
viewVars == <<navState, route, isCalculatingRoute, routeError, hasArrived>>
runVars  == <<effectsDue, pending, remoteAnswers>>
histVars == <<routerCalls, arrivals, wasNear, staleSettled, backed>>
vars     == <<appVars, camVars, geoVars, viewVars, runVars, histVars, call>>

----------------------------------------------------------------------------
(* Bounds of the model.                                                    *)

MaxPending  == 2    \* route requests in flight at once

----------------------------------------------------------------------------
(* JavaScript values.                                                      *)

Null         == [null |-> TRUE]   \* null, where an object is expected
NullStr      == "null"            \* null, where a string is expected
Undefined    == 0 - 1             \* undefined, where a number is expected
NaN          == 0 - 2             \* NaN, where a number is expected
UndefinedStr == "undefined"       \* undefined, where a string is expected
Absent       == <<>>              \* a property the payload does not have
Present(v)   == <<v>>
IsAbsent(p)  == Len(p) = 0
Get(p)       == p[1]

Loc(lat, lng) == [latitude |-> lat, longitude |-> lng]

\* The places search can return, and the positions the device reports: 50 m,
\* 10 m and 9.5 m from the first place, the last of them at the second place.
Places  == {Loc(0, 0), Loc(57, 76)}
FixLocs == {Loc(300, 400), Loc(60, 80), Loc(57, 76)}
PlaceName(p) == IF p = Loc(0, 0) THEN "Cafe, Main Street" ELSE "Museum, Park Road"

\* The integer square root, by Newton's iteration from above; each iterate
\* is computed once, as the value of a bound variable.
RECURSIVE NewtonSqrt(_, _)
NewtonSqrt(n, x) ==
    CHOOSE r \in {IF y < x THEN NewtonSqrt(n, y) ELSE x
                     : y \in {(x + n \div x) \div 2}} : TRUE
ISqrt(n) == IF n = 0 THEN 0 ELSE NewtonSqrt(n, n)
----------------------------------------------------------------------------
(* MapService: geometry.                                                   *)

WalkSpeed == 14           \* 1.4 m/s, in decimetres per second
ArrivalThreshold == 100   \* 10 m, in decimetres

\* distance() of @turf/distance, scaled to the model's unit: the length of
\* the straight line between the two points, rounded down.
TurfDistance(from, to) ==
    LET dLat == to.latitude - from.latitude
        dLng == to.longitude - from.longitude
    IN ISqrt(dLat * dLat + dLng * dLng)

calculateDistance(start, end) == TurfDistance(start, end)

\* The % of JavaScript: the remainder has the sign of the dividend.
JsRem(a, n) == IF a >= 0 THEN a % n ELSE 0 - ((0 - a) % n)

Abs(x) == IF x < 0 THEN 0 - x ELSE x

\* Math.atan(y / x) in degrees for 0 <= y <= x, x > 0, rounded down: exact at
\* 0 and 45 degrees, within a degree between them.
AtanDeg(y, x) == (y * (4500 * x + 1564 * (x - y))) \div (100 * x * x)

\* Math.atan2(y, x) * 180 / Math.PI, in whole degrees from -180 to 180;
\* atan2(0, 0) is 0.
Atan2Deg(y, x) ==
    LET ay   == Abs(y)
        ax   == Abs(x)
        base == IF ay = 0 /\ ax = 0 THEN 0
                ELSE IF ay <= ax THEN AtanDeg(ay, ax)
                ELSE 90 - AtanDeg(ax, ay)
    IN IF x >= 0 THEN (IF y >= 0 THEN base ELSE 0 - base)
                 ELSE (IF y >= 0 THEN 180 - base ELSE base - 180)

\* Mutant of calculateBearing: the bearing is not normalised.
calculateBearingRaw(start, end) ==
    Atan2Deg(end.longitude - start.longitude, end.latitude - start.latitude)

\* calculateBearing, on the plane of the model's coordinates: y is the
\* eastward and x the northward component of the way from start to end.
calculateBearing(start, end) ==
    LET y == end.longitude - start.longitude
        x == end.latitude - start.latitude
        bearing == Atan2Deg(y, x)
    IN JsRem(bearing + 360, 360)

----------------------------------------------------------------------------
(* MapService: the router.                                                 *)

\* distance / 1.4, in the model's units (decimetres to deciseconds).
EstimatedDuration(distanceInMeters) == (distanceInMeters * 10) \div WalkSpeed

\* Mutant of createDirectRoute: the synthetic step is placed at the start.
createDirectRouteStepAtStart(start, end) ==
    LET distanceInMeters  == TurfDistance(start, end)
        estimatedDuration == EstimatedDuration(distanceInMeters)
    IN [coordinates |-> <<start, end>>,
        distance    |-> distanceInMeters,
        duration    |-> estimatedDuration,
        steps       |-> <<[instruction |-> "Head towards destination",
                           distance    |-> distanceInMeters,
                           duration    |-> estimatedDuration,
                           coordinate  |-> start]>>]

createDirectRoute(start, end) ==
    LET distanceInMeters  == TurfDistance(start, end)
        estimatedDuration == EstimatedDuration(distanceInMeters)
    IN [coordinates |-> <<start, end>>,
        distance    |-> distanceInMeters,
        duration    |-> estimatedDuration,
        steps       |-> <<[instruction |-> "Head towards destination",
                           distance    |-> distanceInMeters,
                           duration    |-> estimatedDuration,
                           coordinate  |-> end]>>]

\* What the body of the try block does with one step of the payload.
StepThrows(step) ==
    \/ IsAbsent(step.maneuver)                  \* step.maneuver.instruction of undefined
    \/ IsAbsent(Get(step.maneuver).location)    \* step.maneuver.location[1] of undefined

BuildStep(step) ==
    LET maneuver == Get(step.maneuver)
        falsy    == maneuver.instruction \in {UndefinedStr, ""}
    IN [instruction |-> IF falsy THEN "Continue straight" ELSE maneuver.instruction,
        distance    |-> step.distance,
        duration    |-> step.duration,
        coordinate  |-> [latitude  |-> Get(maneuver.location)[2],
                         longitude |-> Get(maneuver.location)[1]]]

BuildCoordinate(coord) == [longitude |-> coord[1], latitude |-> coord[2]]

\* The try block of calculateRoute on one outcome of the remote request:
\* either it throws, or it returns the Route built from the first candidate.
Threw == [threw |-> TRUE, value |-> Null]
Returned(v) == [threw |-> FALSE, value |-> v]

BuildRoute(candidate) ==
    IF IsAbsent(candidate.geometry) THEN Threw
    ELSE IF IsAbsent(candidate.legs) THEN Threw
    ELSE IF Len(Get(candidate.legs)) = 0 THEN Threw
    ELSE IF IsAbsent(Get(candidate.legs)[1].steps) THEN Threw
    ELSE LET points == Get(candidate.geometry).coordinates
             steps  == Get(Get(candidate.legs)[1].steps)
         IN IF \E i \in 1..Len(steps) : StepThrows(steps[i]) THEN Threw
            ELSE Returned([coordinates |-> [i \in 1..Len(points) |-> BuildCoordinate(points[i])],
                           distance    |-> candidate.distance,
                           duration    |-> candidate.duration,
                           steps       |-> [i \in 1..Len(steps) |-> BuildStep(steps[i])]])

\* Mutant of TryBody: the last candidate is taken.
TryBodyLastCandidate(response) ==
    IF response.fetch = "rejects" THEN Threw
    ELSE IF ~response.ok THEN Threw
    ELSE IF response.json = "rejects" THEN Threw
    ELSE IF IsAbsent(response.routes) THEN Threw
    ELSE IF Len(Get(response.routes)) = 0 THEN Threw
    ELSE BuildRoute(Get(response.routes)[Len(Get(response.routes))])

TryBody(response) ==
    IF response.fetch = "rejects" THEN Threw                 \* network error
    ELSE IF ~response.ok THEN Threw                          \* 'Route calculation failed'
    ELSE IF response.json = "rejects" THEN Threw             \* the body is no JSON
    ELSE IF IsAbsent(response.routes) THEN Threw             \* 'No route found'
    ELSE IF Len(Get(response.routes)) = 0 THEN Threw         \* 'No route found'
    ELSE BuildRoute(Get(response.routes)[1])

\* How the promise of calculateRoute settles.
Fulfilled(v) == [state |-> "fulfilled", value |-> v]
Rejected     == [state |-> "rejected", value |-> Null]

\* Mutant of CalculateRoute: no catch block.
CalculateRouteNoCatch(start, end, response) ==
    LET try == TryBody(response)
    IN IF try.threw THEN Rejected ELSE Fulfilled(try.value)

\* Mutant of CalculateRoute: a route without its totals is refused.
CalculateRouteStrict(start, end, response) ==
    LET try == TryBody(response)
    IN IF try.threw THEN Fulfilled(createDirectRoute(start, end))
       ELSE IF try.value.distance = Undefined \/ try.value.duration = Undefined
            THEN Fulfilled(createDirectRoute(start, end))
            ELSE Fulfilled(try.value)

CalculateRoute(start, end, response) ==
    LET try == TryBody(response)
    IN IF try.threw THEN Fulfilled(createDirectRoute(start, end))
                    ELSE Fulfilled(try.value)

----------------------------------------------------------------------------
(* The outcomes of the request to the routing service for (start, end).    *)

Pair(l) == <<l.longitude, l.latitude>>     \* GeoJSON order
Via(start, end) ==
    Loc((start.latitude + end.latitude) \div 2, start.longitude + 30)

GoodStep(text, at, d) ==
    [maneuver |-> Present([instruction |-> text, location |-> Present(Pair(at))]),
     distance |-> d,
     duration |-> (d * 10) \div 25]

GoodSteps(start, end) ==
    <<GoodStep("Turn left", start, TurfDistance(start, Via(start, end))),
      GoodStep("Arrive", Via(start, end), TurfDistance(Via(start, end), end))>>

Candidate(start, end, steps) ==
    [geometry |-> Present([coordinates |-> <<Pair(start), Pair(Via(start, end)), Pair(end)>>]),
     distance |-> TurfDistance(start, Via(start, end)) + TurfDistance(Via(start, end), end),
     duration |-> ((TurfDistance(start, Via(start, end)) + TurfDistance(Via(start, end), end)) * 10) \div 25,
     legs     |-> Present(<<[steps |-> steps]>>)]

GoodCandidate(start, end) == Candidate(start, end, Present(GoodSteps(start, end)))

\* A second, longer candidate straight through the destination's longitude.
OtherCandidate(start, end) ==
    [geometry |-> Present([coordinates |-> <<Pair(start), Pair(end)>>]),
     distance |-> TurfDistance(start, end) + 400,
     duration |-> TurfDistance(start, end),
     legs     |-> Present(<<[steps |-> Present(<<GoodStep("Go", end, 400)>>)]>>)]

Answer(routes) == [fetch |-> "resolves", ok |-> TRUE, json |-> "parses", routes |-> routes]

NetworkError == [fetch |-> "rejects", ok |-> FALSE, json |-> "rejects", routes |-> Absent]
NotOk        == [fetch |-> "resolves", ok |-> FALSE, json |-> "parses", routes |-> Absent]
NotJson      == [fetch |-> "resolves", ok |-> TRUE, json |-> "rejects", routes |-> Absent]
NoRoutes     == Answer(Absent)
EmptyRoutes  == Answer(Present(<<>>))

WellFormed(start, end) == Answer(Present(<<GoodCandidate(start, end)>>))

\* The second step of the well-formed answer, with one property changed.
WithSecondStep(start, end, step) ==
    Answer(Present(<<Candidate(start, end, Present(<<GoodSteps(start, end)[1], step>>))>>))

SecondStep(start, end) == GoodSteps(start, end)[2]

WithManeuver(step, instruction, loc) ==
    [step EXCEPT !.maneuver = Present([instruction |-> instruction, location |-> loc])]

\* Payloads that lack exactly one of the properties calculateRoute reads.
Lacking(start, end) ==
    LET good == GoodCandidate(start, end)
        step == SecondStep(start, end)
        man  == Get(step.maneuver)
    IN [geometry     |-> Answer(Present(<<[good EXCEPT !.geometry = Absent]>>)),
        distance     |-> Answer(Present(<<[good EXCEPT !.distance = Undefined]>>)),
        duration     |-> Answer(Present(<<[good EXCEPT !.duration = Undefined]>>)),
        legs         |-> Answer(Present(<<[good EXCEPT !.legs = Absent]>>)),
        steps        |-> Answer(Present(<<Candidate(start, end, Absent)>>)),
        maneuver     |-> WithSecondStep(start, end, [step EXCEPT !.maneuver = Absent]),
        instruction  |-> WithSecondStep(start, end, WithManeuver(step, UndefinedStr, man.location)),
        location     |-> WithSecondStep(start, end, WithManeuver(step, man.instruction, Absent)),
        stepDistance |-> WithSecondStep(start, end, [step EXCEPT !.distance = Undefined]),
        stepDuration |-> WithSecondStep(start, end, [step EXCEPT !.duration = Undefined])]

LackingKinds == {"geometry", "distance", "duration", "legs", "steps", "maneuver",
                 "instruction", "location", "stepDistance", "stepDuration"}

Failures == {NetworkError, NotOk, NotJson, NoRoutes, EmptyRoutes}

Responses(start, end) ==
    Failures
    \cup {WellFormed(start, end),
          Answer(Present(<<GoodCandidate(start, end), OtherCandidate(start, end)>>)),
          Answer(Present(<<OtherCandidate(start, end), GoodCandidate(start, end)>>)),
          WithSecondStep(start, end, WithManeuver(SecondStep(start, end), "",
                                                  Get(SecondStep(start, end).maneuver).location))}
    \cup {Lacking(start, end)[k] : k \in LackingKinds}

\* The outcomes the navigation sessions of the model meet: the service is
\* down, or it answers with one well-formed candidate.
NavResponses(start, end) == {NetworkError, WellFormed(start, end)}

----------------------------------------------------------------------------
(* useGeolocation.                                                         *)

FixHeadings == {Absent, Present(90)}   \* position.coords.heading: null, or degrees
Alphas == {0, 270}                \* event.alpha of a deviceorientation event

compassHeading(alpha) == (360 - alpha) % 360

----------------------------------------------------------------------------
(* The state after App has mounted and its mount effects have run.         *)

NoCall == [state |-> "none"]

\* No NavigationView instance exists: before the first mount, and after an
\* unmount has discarded the instance with its state.
NoView == [navState |-> Null, route |-> Null, isCalculatingRoute |-> FALSE,
           routeError |-> NullStr, hasArrived |-> FALSE]

NoNavigationView ==
    /\ navState = NoView.navState
    /\ route = NoView.route
    /\ isCalculatingRoute = NoView.isCalculatingRoute
    /\ routeError = NoView.routeError
    /\ hasArrived = NoView.hasArrived

InitApp ==
    /\ appState = "permissions"
    /\ destination = Null
    /\ destinationName = ""
    /\ permissionsRequested = FALSE
    /\ cameraPermission = FALSE
    /\ cameraLoading = FALSE
    /\ permissionCall = Absent
    /\ location = Null
    /\ heading = 0
    \* navigator.geolocation missing: getCurrentPosition reports at once, no watch is set
    /\ \/ /\ positionRequest = "outstanding"
          /\ locationError = NullStr
          /\ locationLoading = TRUE
       \/ /\ positionRequest = "unsupported"
          /\ locationError = "Geolocation is not supported by this browser"
          /\ locationLoading = FALSE
    /\ NoNavigationView
    /\ effectsDue = {}
    /\ pending = EmptyBag
    /\ remoteAnswers \in BOOLEAN
    /\ routerCalls = 0
    /\ arrivals = 0
    /\ wasNear = FALSE
    /\ staleSettled = FALSE
    /\ backed = FALSE

Init == InitApp /\ call = NoCall

\* NavigationView is rendered.
Mounted == appState = "navigation" /\ destination # Null

\* No effect is waiting: React runs the effects of a render before it
\* handles the next event.
Idle == effectsDue = {}

\* The history counters count 0, 1, 2 (two or more).
Count(n) == IF n < 2 THEN n + 1 ELSE n

----------------------------------------------------------------------------
(* App and useCamera: the permission screen.                               *)

\* The button of PermissionGate: handlePermissionRequest up to its await,
\* requestCameraAccess up to getUserMedia.
HandlePermissionRequest ==
    /\ Idle
    /\ appState = "permissions"
    /\ ~(cameraLoading \/ locationLoading)          \* the button is disabled while loading
    /\ permissionsRequested' = TRUE
    /\ cameraLoading' = TRUE
    /\ permissionCall' = Present([currentLocation  |-> location # Null,
                                  cameraPermission |-> cameraPermission])
    /\ effectsDue' = IF permissionsRequested THEN {} ELSE {"advance"}
    /\ backed' = FALSE
    /\ UNCHANGED <<appState, destination, destinationName, cameraPermission>>
    /\ UNCHANGED <<geoVars, viewVars, pending, remoteAnswers, call>>
    /\ UNCHANGED <<routerCalls, arrivals, wasNear, staleSettled>>

\* Mutant of CameraSettles: handlePermissionRequest goes on to the map
\* picker without looking at the position and the permission.
CameraSettlesAdvances(granted) ==
    /\ Idle
    /\ ~IsAbsent(permissionCall)
    /\ cameraPermission' = granted
    /\ cameraLoading' = FALSE
    /\ permissionCall' = Absent
    /\ appState' = "map-picker"
    /\ effectsDue' = IF cameraPermission' # cameraPermission \/ appState' # appState
                     THEN {"advance"} ELSE {}
    /\ backed' = FALSE
    /\ UNCHANGED <<destination, destinationName, permissionsRequested>>
    /\ UNCHANGED <<geoVars, viewVars, pending, remoteAnswers, call>>
    /\ UNCHANGED <<routerCalls, arrivals, wasNear, staleSettled>>

\* getUserMedia settles: the rest of requestCameraAccess, then the rest of
\* handlePermissionRequest, which reads the values of the render it was
\* created in.
CameraSettles(granted) ==
    /\ Idle
    /\ ~IsAbsent(permissionCall)
    /\ cameraPermission' = granted
    /\ cameraLoading' = FALSE
    /\ permissionCall' = Absent
    /\ appState' = IF Get(permissionCall).currentLocation /\ Get(permissionCall).cameraPermission
                   THEN "map-picker" ELSE appState
    /\ effectsDue' = IF cameraPermission' # cameraPermission \/ appState' # appState
                     THEN {"advance"} ELSE {}
    /\ backed' = (backed /\ appState' = "permissions")
    /\ UNCHANGED <<destination, destinationName, permissionsRequested>>
    /\ UNCHANGED <<geoVars, viewVars, pending, remoteAnswers, call>>
    /\ UNCHANGED <<routerCalls, arrivals, wasNear, staleSettled>>

----------------------------------------------------------------------------
(* useGeolocation: the callbacks.                                          *)

\* The success callback of getCurrentPosition and of watchPosition. The new
\* location is a new object, so every effect that depends on currentLocation
\* is due, also when the coordinates are the old ones.
PositionFix(loc, coordsHeading) ==
    /\ Idle
    /\ Mounted => BagCardinality(pending) < MaxPending
    /\ location' = loc
    /\ heading' = IF IsAbsent(coordsHeading) THEN heading ELSE Get(coordsHeading)
    /\ locationError' = NullStr
    /\ locationLoading' = FALSE
    /\ effectsDue' = {"advance"} \cup (IF Mounted THEN {"route", "fix"} ELSE {})
    /\ wasNear' = IF Mounted
                  THEN wasNear \/ TurfDistance(loc, destination) < ArrivalThreshold
                  ELSE wasNear
    /\ UNCHANGED <<appVars, camVars, viewVars, pending, remoteAnswers>>
    /\ UNCHANGED <<routerCalls, arrivals, staleSettled, backed, call>>

GetCurrentPositionSuccess(loc, coordsHeading) ==
    /\ positionRequest = "outstanding"
    /\ positionRequest' = "done"
    /\ PositionFix(loc, coordsHeading)

\* The one-shot request (timeout 10 s, cached positions allowed) settles
\* before the watch first reports.
WatchPositionSuccess(loc, coordsHeading) ==
    /\ positionRequest = "done"
    /\ UNCHANGED positionRequest
    /\ PositionFix(loc, coordsHeading)

\* onError of getCurrentPosition (denied, unavailable, timed out).
GetCurrentPositionError ==
    /\ Idle
    /\ positionRequest = "outstanding"
    /\ positionRequest' = "done"
    /\ locationError' = "Location request failed"
    /\ locationLoading' = FALSE
    /\ UNCHANGED <<location, heading, effectsDue>>
    /\ UNCHANGED <<appVars, camVars, viewVars, pending, remoteAnswers, histVars, call>>

\* handleOrientationChange with a non-null alpha.
OrientationChange(alpha) ==
    /\ Idle
    /\ heading' = compassHeading(alpha)
    /\ effectsDue' = IF Mounted /\ heading' # heading THEN {"fix"} ELSE {}
    /\ UNCHANGED <<location, locationError, locationLoading, positionRequest>>
    /\ UNCHANGED <<appVars, camVars, viewVars, pending, remoteAnswers, histVars, call>>

----------------------------------------------------------------------------
(* App: starting and leaving a navigation session.                         *)

\* The first render of a NavigationView: its useState initialisers.
InitialNavState(dest) ==
    [currentLocation       |-> location,
     destination           |-> dest,
     route                 |-> Null,
     currentHeading        |-> heading,
     isNavigating          |-> TRUE,
     currentStepIndex      |-> 0,
     distanceToDestination |-> 0]

\* Mutant of MountNavigationView: the route is not marked as being calculated.
MountNotCalculating(dest) ==
    /\ navState' = InitialNavState(dest)
    /\ route' = Null
    /\ isCalculatingRoute' = FALSE
    /\ routeError' = NullStr
    /\ hasArrived' = FALSE

MountNavigationView(dest) ==
    /\ navState' = InitialNavState(dest)
    /\ route' = Null
    /\ isCalculatingRoute' = TRUE
    /\ routeError' = NullStr
    /\ hasArrived' = FALSE

\* handleDestinationSelect, called by MapPicker with the chosen place.
HandleDestinationSelect(dest) ==
    /\ Idle
    /\ appState = "map-picker"
    /\ location # Null => BagCardinality(pending) < MaxPending
    /\ destination' = dest
    /\ destinationName' = PlaceName(dest)
    /\ appState' = "navigation"
    /\ MountNavigationView(dest)
    /\ effectsDue' = {"advance", "route", "fix"}
    /\ routerCalls' = 0
    /\ arrivals' = 0
    /\ wasNear' = (location # Null /\ TurfDistance(location, dest) < ArrivalThreshold)
    /\ staleSettled' = FALSE
    /\ UNCHANGED <<permissionsRequested, camVars, geoVars, pending, remoteAnswers, backed, call>>

\* The requests in flight when their NavigationView is unmounted: each keeps
\* the state setters of an instance that no longer exists.
Orphan(request) == [request EXCEPT !.live = FALSE]
Orphaned(bag) ==
    [r \in {Orphan(q) : q \in BagToSet(bag)} |->
        CopiesIn(r, bag) + CopiesIn([r EXCEPT !.live = TRUE], bag)]

UnmountNavigationView ==
    /\ navState' = NoView.navState
    /\ route' = NoView.route
    /\ isCalculatingRoute' = NoView.isCalculatingRoute
    /\ routeError' = NoView.routeError
    /\ hasArrived' = NoView.hasArrived

\* handleBack, from the back button of MapPicker or NavigationView and from
\* Done on the arrival panel. Leaving 'navigation' unmounts NavigationView.
HandleBack ==
    /\ Idle
    /\ appState \in {"navigation", "map-picker"}
    /\ IF appState = "navigation"
       THEN /\ appState' = "map-picker"
            /\ destination' = Null
            /\ destinationName' = ""
            /\ UnmountNavigationView
            /\ routerCalls' = 0
            /\ arrivals' = 0
            /\ wasNear' = FALSE
            /\ staleSettled' = FALSE
            /\ pending' = Orphaned(pending)
            /\ UNCHANGED backed
       ELSE /\ appState' = "permissions"
            /\ backed' = TRUE
            /\ UNCHANGED <<destination, destinationName, viewVars, pending>>
            /\ UNCHANGED <<routerCalls, arrivals, wasNear, staleSettled>>
    /\ effectsDue' = {"advance"}
    /\ UNCHANGED <<permissionsRequested, camVars, geoVars>>
    /\ UNCHANGED <<remoteAnswers, call>>

----------------------------------------------------------------------------
(* NavigationView and App: the effects.                                    *)

\* A call of mapService.calculateRoute by the mounted NavigationView.
Request(start, end) == [live |-> TRUE, start |-> start, end |-> end]

\* Mutant of ArrivesNow: a distance of zero is taken for no distance.
ArrivesNowNonZero(distanceToDestination, arrived) ==
    /\ distanceToDestination # 0
    /\ distanceToDestination < ArrivalThreshold /\ ~arrived

\* Mutant of ArrivesNow: the threshold itself counts as arrived.
ArrivesNowInclusive(distanceToDestination, arrived) ==
    distanceToDestination <= ArrivalThreshold /\ ~arrived

\* The arrival test of the fix effect.
ArrivesNow(distanceToDestination, arrived) ==
    distanceToDestination < ArrivalThreshold /\ ~arrived

\* Mutant of NextHasArrived: no arrival before a route is there.
NextHasArrivedNeedsRoute(distanceToDestination, arrived) ==
    IF distanceToDestination < ArrivalThreshold /\ ~arrived /\ route # Null
    THEN TRUE ELSE arrived

\* Mutant of NextHasArrived: hasArrived follows the distance.
NextHasArrivedFollowsDistance(distanceToDestination, arrived) ==
    distanceToDestination < ArrivalThreshold

\* hasArrived after the fix effect: setHasArrived(true), or no call.
NextHasArrived(distanceToDestination, arrived) ==
    IF ArrivesNow(distanceToDestination, arrived) THEN TRUE ELSE arrived

\* Mutant of FixNavState: a fix farther from the destination is dropped.
FixNavStateKeepsNearest(prev, distanceToDestination) ==
    IF prev.distanceToDestination # 0 /\ distanceToDestination > prev.distanceToDestination
    THEN [prev EXCEPT !.currentHeading = heading]
    ELSE [prev EXCEPT !.currentLocation = location,
                      !.currentHeading = heading,
                      !.distanceToDestination = distanceToDestination]

\* Mutant of FixNavState: every fix moves on to the next step of the route.
FixNavStateAdvancesStep(prev, distanceToDestination) ==
    [prev EXCEPT !.currentLocation = location,
                 !.currentHeading = heading,
                 !.distanceToDestination = distanceToDestination,
                 !.currentStepIndex = IF route # Null /\ @ + 1 < Len(route.steps)
                                      THEN @ + 1 ELSE @]

\* Mutant of FixNavState: a fix is applied only once a route is there.
FixNavStateAwaitsRoute(prev, distanceToDestination) ==
    IF route = Null THEN prev
    ELSE [prev EXCEPT !.currentLocation = location,
                      !.currentHeading = heading,
                      !.distanceToDestination = distanceToDestination]

\* Mutant of FixNavState: nothing is updated once arrived.
FixNavStateFrozen(prev, distanceToDestination) ==
    IF hasArrived THEN prev
    ELSE [prev EXCEPT !.currentLocation = location,
                      !.currentHeading = heading,
                      !.distanceToDestination = distanceToDestination]

\* The setNavState of the fix effect.
FixNavState(prev, distanceToDestination) ==
    [prev EXCEPT !.currentLocation = location,
                 !.currentHeading = heading,
                 !.distanceToDestination = distanceToDestination]

\* Mutant of RouteEffectRuns: the route effect does not look at the position.
RouteEffectRunsUnguarded == "route" \in effectsDue /\ Mounted

\* The route effect is due and gets past "if (!currentLocation) return".
RouteEffectRuns == "route" \in effectsDue /\ Mounted /\ location # Null

\* The effects React has scheduled, in one flush: the route effect and the
\* fix effect of NavigationView, then the auto-advance effect of App.
RunEffects ==
    /\ ~Idle
    /\ LET routeRuns == RouteEffectRuns
           fixRuns   == "fix" \in effectsDue /\ Mounted /\ location # Null
           distanceToDestination == calculateDistance(location, destination)
           advances  == /\ "advance" \in effectsDue
                        /\ permissionsRequested /\ location # Null /\ cameraPermission
                        /\ appState = "permissions"
       IN /\ isCalculatingRoute' = IF routeRuns THEN TRUE ELSE isCalculatingRoute
          /\ routeError' = IF routeRuns THEN NullStr ELSE routeError
          /\ pending' = IF routeRuns
                        THEN pending (+) SetToBag({Request(location, destination)})
                        ELSE pending
          /\ routerCalls' = IF routeRuns THEN Count(routerCalls) ELSE routerCalls
          /\ hasArrived' = IF fixRuns THEN NextHasArrived(distanceToDestination, hasArrived)
                                      ELSE hasArrived
          /\ arrivals' = IF fixRuns /\ ArrivesNow(distanceToDestination, hasArrived)
                         THEN Count(arrivals) ELSE arrivals
          /\ navState' = IF fixRuns THEN FixNavState(navState, distanceToDestination)
                                    ELSE navState
          /\ appState' = IF advances THEN "map-picker" ELSE appState
          \* what the effects changed makes the effects that depend on it due again
          /\ effectsDue' = (IF hasArrived' # hasArrived THEN {"fix"} ELSE {})
                           \cup (IF appState' # appState THEN {"advance"} ELSE {})
    /\ UNCHANGED <<destination, destinationName, permissionsRequested, camVars, geoVars>>
    /\ backed' = (backed /\ appState' = "permissions")
    /\ UNCHANGED <<route, remoteAnswers, wasNear, staleSettled, call>>

\* getCurrentInstruction: the text of the instruction panel.
getCurrentInstruction ==
    IF hasArrived THEN "You have arrived at your destination!"
    ELSE IF route = Null THEN "Head towards destination"
    ELSE IF Len(route.steps) = 0 THEN "Head towards destination"
    ELSE IF navState.currentStepIndex + 1 > Len(route.steps) THEN "Continue straight"
    ELSE IF route.steps[navState.currentStepIndex + 1].instruction \in {UndefinedStr, ""}
         THEN "Continue straight"
    ELSE route.steps[navState.currentStepIndex + 1].instruction

----------------------------------------------------------------------------
(* NavigationView: the route request settles.                              *)

\* Mutant of SettersLive: the setters act on whatever instance is mounted.
SettersAlwaysLive(request) == Mounted

\* The state setters a request's continuation holds belong to the
\* NavigationView instance that issued it; on an unmounted instance they
\* change nothing.
SettersLive(request) == request.live

\* The continuation of calculateRoute in the route effect: try, catch,
\* finally. An effect that is due runs before the continuation's updates are
\* rendered, so the continuation is taken when no effect is due.
ResolveRoute(request, response) ==
    /\ Idle
    /\ remoteAnswers
    /\ BagIn(request, pending)
    /\ LET outcome == CalculateRoute(request.start, request.end, response)
       IN /\ pending' = pending (-) SetToBag({request})
          /\ staleSettled' = (staleSettled \/ (Mounted /\ ~request.live))
          /\ IF SettersLive(request)
             THEN /\ IF outcome.state = "fulfilled"
                     THEN /\ route' = outcome.value
                          /\ navState' = [navState EXCEPT !.route = outcome.value]
                          /\ UNCHANGED routeError
                     ELSE /\ routeError' = "Failed to calculate route. Using direct navigation."
                          /\ UNCHANGED <<route, navState>>
                  /\ isCalculatingRoute' = FALSE
             ELSE UNCHANGED <<route, navState, routeError, isCalculatingRoute>>
    /\ UNCHANGED <<appVars, camVars, geoVars, hasArrived, effectsDue, remoteAnswers>>
    /\ UNCHANGED <<routerCalls, arrivals, wasNear, backed, call>>

----------------------------------------------------------------------------

Next ==
    \/ HandlePermissionRequest
    \/ \E granted \in BOOLEAN : CameraSettles(granted)
    \/ \E loc \in FixLocs, h \in FixHeadings : GetCurrentPositionSuccess(loc, h)
    \/ \E loc \in FixLocs, h \in FixHeadings : WatchPositionSuccess(loc, h)
    \/ GetCurrentPositionError
    \/ \E alpha \in Alphas : OrientationChange(alpha)
    \/ \E dest \in Places : HandleDestinationSelect(dest)
    \/ HandleBack
    \/ RunEffects
    \/ \E request \in BagToSet(pending) :
          \E response \in NavResponses(request.start, request.end) :
             ResolveRoute(request, response)

Spec == Init /\ [][Next]_vars

\* Scheduling: React runs the effects that are due, and a request the
\* routing service answers settles. Nothing obliges the service to answer
\* (remoteAnswers), the device to report or the user to act.
FairSpec ==
    /\ Spec
    /\ WF_vars(RunEffects)
    /\ SF_vars(\E request \in BagToSet(pending) :
                  \E response \in NavResponses(request.start, request.end) :
                     ResolveRoute(request, response))

\* FairSpec with a user who keeps pressing the button of the permission
\* screen while it is enabled, and a browser that settles every camera
\* request, granting it or not.
PersistentUserSpec ==
    /\ FairSpec
    /\ SF_vars(HandlePermissionRequest)
    /\ SF_vars(\E granted \in BOOLEAN : CameraSettles(granted))

----------------------------------------------------------------------------
(* calculateRoute on its own: one call, for every start, end and outcome   *)
(* of the remote request.                                                  *)

RouterInit ==
    /\ InitApp
    /\ \E s \in FixLocs, e \in Places :
          \E r \in Responses(s, e) :
             call = [state |-> "pending", start |-> s, end |-> e, response |-> r, value |-> Null]

Settle ==
    /\ call.state = "pending"
    /\ LET outcome == CalculateRoute(call.start, call.end, call.response)
       IN call' = [call EXCEPT !.state = outcome.state, !.value = outcome.value]
    /\ UNCHANGED <<appVars, camVars, geoVars, viewVars, runVars, histVars>>

RouterNext == Settle

RouterSpec == RouterInit /\ [][RouterNext]_vars

----------------------------------------------------------------------------
(* NavigationView on its own, rendered before any position is known (its   *)
(* currentLocation prop is Location | null), with the hooks that feed it.  *)

ViewInit ==
    /\ appState = "navigation"
    /\ location = Null
    /\ heading = 0
    /\ \E dest \in Places :
          /\ destination = dest
          /\ destinationName = PlaceName(dest)
          /\ navState = InitialNavState(dest)
    /\ route = Null
    /\ isCalculatingRoute = TRUE
    /\ routeError = NullStr
    /\ hasArrived = FALSE
    /\ permissionsRequested = TRUE
    /\ cameraPermission \in BOOLEAN
    /\ cameraLoading = FALSE
    /\ permissionCall = Absent
    /\ \/ /\ positionRequest = "outstanding"
          /\ locationError = NullStr
          /\ locationLoading = TRUE
       \/ /\ positionRequest = "unsupported"
          /\ locationError = "Geolocation is not supported by this browser"
          /\ locationLoading = FALSE
    /\ effectsDue = {"route", "fix"}
    /\ pending = EmptyBag
    /\ remoteAnswers \in BOOLEAN
    /\ routerCalls = 0
    /\ arrivals = 0
    /\ wasNear = FALSE
    /\ staleSettled = FALSE
    /\ backed = FALSE
    /\ call = NoCall

ViewNext ==
    \/ \E loc \in FixLocs, h \in FixHeadings : GetCurrentPositionSuccess(loc, h)
    \/ \E loc \in FixLocs, h \in FixHeadings : WatchPositionSuccess(loc, h)
    \/ GetCurrentPositionError
    \/ \E alpha \in Alphas : OrientationChange(alpha)
    \/ RunEffects
    \/ \E request \in BagToSet(pending) :
          \E response \in NavResponses(request.start, request.end) :
             ResolveRoute(request, response)

ViewSpec == ViewInit /\ [][ViewNext]_vars

----------------------------------------------------------------------------
(* useGeolocation on its own, under App on the permission screen, with the *)
(* headings and angles a device can report.                                *)

\* position.coords.heading: null where the device cannot tell, degrees in
\* [0, 360) while it moves, NaN while it stands still.
ReportedHeadings == {Absent, Present(0), Present(90), Present(180), Present(359), Present(NaN)}

\* event.alpha, in [0, 360].
ReportedAlphas == {0, 1, 90, 270, 359, 360}

HeadingNext ==
    \/ \E loc \in FixLocs, h \in ReportedHeadings : GetCurrentPositionSuccess(loc, h)
    \/ \E loc \in FixLocs, h \in ReportedHeadings : WatchPositionSuccess(loc, h)
    \/ GetCurrentPositionError
    \/ \E alpha \in ReportedAlphas : OrientationChange(alpha)
    \/ RunEffects

HeadingSpec == Init /\ [][HeadingNext]_vars

----------------------------------------------------------------------------
(* AROverlay: the arrow direction effect on its own, for bearings and      *)
(* headings of one turn and of the turn after it.                          *)

Angles == {0, 1, 10, 90, 180, 270, 350, 359}
TurnedAngles == Angles \cup {a + 360 : a \in Angles}

\* Mutant of adjustedBearing: the difference is reduced as it is.
adjustedBearingNoOffset(bearing, currentHeading) ==
    JsRem(bearing - currentHeading, 360)

\* (bearing - currentHeading + 360) % 360
adjustedBearing(bearing, currentHeading) ==
    JsRem(bearing - currentHeading + 360, 360)

ArrowInit ==
    /\ InitApp
    /\ \E b \in TurnedAngles, h \in TurnedAngles :
          call = [state |-> "due", bearing |-> b, currentHeading |-> h,
                  rotation |-> Undefined]

\* The effect runs: the arrow is turned by adjustedBearing.
ArrowEffect ==
    /\ call.state = "due"
    /\ call' = [call EXCEPT !.state = "applied",
                            !.rotation = adjustedBearing(call.bearing, call.currentHeading)]
    /\ UNCHANGED <<appVars, camVars, geoVars, viewVars, runVars, histVars>>

ArrowNext == ArrowEffect

ArrowSpec == ArrowInit /\ [][ArrowNext]_vars

----------------------------------------------------------------------------
(* MapPicker observed in isolation (PickerSpec): the search box, the       *)
(* debounce timer of its effect, and the searches in flight.  `call' holds *)
(* the component: its useState values, the timer, the requests.  A query   *)
(* is the sequence of its characters; time advances in half debounce       *)
(* periods.                                                                *)

DebounceMs == 500

MaxSearches == 3    \* handleSearch calls in one run

Queries ==
    { <<>>,
      <<"a", "b">>,
      <<"a", "b", "c">>,
      <<"a", "b", "c", "d">>,
      <<" ", "a", "b", " ">>,
      <<"a", " ", "b">> }

\* String.prototype.trim
RECURSIVE Trim(_)
Trim(s) ==
    IF Len(s) = 0 THEN s
    ELSE IF Head(s) = " " THEN Trim(Tail(s))
    ELSE IF s[Len(s)] = " " THEN Trim(SubSeq(s, 1, Len(s) - 1))
    ELSE s

\* parseFloat of a string of decimal digits
RECURSIVE parseFloat(_)
parseFloat(s) ==
    IF Len(s) = 0 THEN 0 ELSE 10 * parseFloat(SubSeq(s, 1, Len(s) - 1)) + s[Len(s)]

\* What Nominatim knows: one place per query, named after it.
PlacesFound(query) ==
    << [display_name |-> query, lat |-> <<4, Len(query)>>, lon |-> <<7, Len(query)>>,
        place_id |-> Len(query)] >>

\* What searchPlaces can settle with: places, no place, or a rejection.
SearchOutcomes(query) ==
    { [ok |-> TRUE,  results |-> PlacesFound(query)],
      [ok |-> TRUE,  results |-> <<>>],
      [ok |-> FALSE, results |-> <<>>] }

NoTimer == [armed |-> FALSE, query |-> <<>>, elapsed |-> 0]
Timer(query) == [armed |-> TRUE, query |-> query, elapsed |-> 0]

PickerInit ==
    /\ InitApp
    /\ call = [searchQuery         |-> <<>>,
               searchResults       |-> <<>>,
               selectedDestination |-> Null,
               selectedName        |-> <<>>,
               isSearching         |-> FALSE,
               searchError         |-> NullStr,
               timer               |-> Timer(<<>>),
               inflight            |-> {},
               calls               |-> 0]

\* onChange of the input: setSearchQuery, then the effect's cleanup clears the
\* timer of the previous query and the effect arms one for the new query.
ChangeQuery(query) ==
    /\ query # call.searchQuery
    /\ call' = [call EXCEPT !.searchQuery = query, !.timer = Timer(query)]
    /\ UNCHANGED <<appVars, camVars, geoVars, viewVars, runVars, histVars>>

\* Time passes while a timer is armed.
Tick ==
    /\ call.timer.armed
    /\ call.timer.elapsed < DebounceMs
    /\ call' = [call EXCEPT !.timer.elapsed = @ + DebounceMs \div 2]
    /\ UNCHANGED <<appVars, camVars, geoVars, viewVars, runVars, histVars>>

\* handleSearch(query) up to its await
handleSearch(query) ==
    IF Len(Trim(query)) < 3
    THEN [call EXCEPT !.searchResults = <<>>, !.calls = @ + 1]
    ELSE [call EXCEPT !.isSearching = TRUE,
                      !.searchError = NullStr,
                      !.inflight = @ \cup {[query |-> query, seq |-> call.calls + 1]},
                      !.calls = @ + 1]

\* The timer fires: handleSearch(searchQuery) of the render that armed it.
TimerFires ==
    /\ call.timer.armed
    /\ call.timer.elapsed >= DebounceMs
    /\ call.calls < MaxSearches
    /\ call' = [handleSearch(call.timer.query) EXCEPT !.timer = NoTimer]
    /\ UNCHANGED <<appVars, camVars, geoVars, viewVars, runVars, histVars>>

\* searchPlaces settles: the rest of handleSearch (try / catch / finally).
SearchSettles(request, outcome) ==
    /\ request \in call.inflight
    /\ call' = [call EXCEPT
                  !.inflight = @ \ {request},
                  !.searchResults = outcome.results,
                  !.searchError = IF outcome.ok THEN @
                                  ELSE "Search failed. Please try again.",
                  !.isSearching = FALSE]
    /\ UNCHANGED <<appVars, camVars, geoVars, viewVars, runVars, histVars>>

\* MapPicker.handleDestinationSelect: a result of the list is chosen.
PickResult(i) ==
    /\ i \in 1..Len(call.searchResults)
    /\ call' = [call EXCEPT
                  !.selectedDestination = Loc(parseFloat(call.searchResults[i].lat),
                                              parseFloat(call.searchResults[i].lon)),
                  !.selectedName = call.searchResults[i].display_name,
                  !.searchResults = <<>>]
    /\ UNCHANGED <<appVars, camVars, geoVars, viewVars, runVars, histVars>>

PickerNext ==
    \/ \E query \in Queries : ChangeQuery(query)
    \/ Tick
    \/ TimerFires
    \/ \E request \in call.inflight :
          \E outcome \in SearchOutcomes(request.query) : SearchSettles(request, outcome)
    \/ \E i \in 1..1 : PickResult(i)

PickerSpec == PickerInit /\ [][PickerNext]_vars

----------------------------------------------------------------------------
(* MiniMap: what it draws is a function of its props, which NavigationView *)
(* passes on: the position of useGeolocation, the destination, the route.  *)
(* Pixel values are whole numbers, rounded down.                           *)

Infinity == 0 - 3   \* Infinity or -Infinity, where a number is expected

svgSize == 128

\* Math.min(...values), Math.max(...values)
MathMin(values) == CHOOSE v \in values : \A w \in values : v <= w
MathMax(values) == CHOOSE v \in values : \A w \in values : v >= w

\* MiniMap.getBounds
getBounds(currentLocation, dest, shownRoute) ==
    IF currentLocation = Null THEN Null
    ELSE LET locations == <<currentLocation, dest>>
                          \o (IF shownRoute # Null THEN shownRoute.coordinates ELSE <<>>)
             lats == {locations[i].latitude : i \in 1..Len(locations)}
             lngs == {locations[i].longitude : i \in 1..Len(locations)}
         IN [minLat |-> MathMin(lats), maxLat |-> MathMax(lats),
             minLng |-> MathMin(lngs), maxLng |-> MathMax(lngs)]

\* (part / whole) * (size - 20) + 10 in JavaScript numbers: 0 / 0 is NaN,
\* anything else over 0 is infinite, and both stay so in the sum.
Scale(part, whole, size) ==
    IF whole = 0 THEN (IF part = 0 THEN NaN ELSE Infinity)
    ELSE (part * (size - 20)) \div whole + 10

\* MiniMap.coordToSVG
coordToSVG(loc, bounds, width, height) ==
    [x |-> Scale(loc.longitude - bounds.minLng, bounds.maxLng - bounds.minLng, width),
     y |-> Scale(bounds.maxLat - loc.latitude, bounds.maxLat - bounds.minLat, height)]

\* currentPos, destPos and the points of the polyline; nothing when the
\* placeholder pin is drawn instead of the map.
MiniMapPositions(currentLocation, dest, shownRoute) ==
    LET bounds == getBounds(currentLocation, dest, shownRoute)
    IN  IF bounds = Null \/ currentLocation = Null THEN {}
        ELSE {coordToSVG(currentLocation, bounds, svgSize, svgSize),
              coordToSVG(dest, bounds, svgSize, svgSize)}
             \cup (IF shownRoute # Null /\ Len(shownRoute.coordinates) > 1
                   THEN {coordToSVG(shownRoute.coordinates[i], bounds, svgSize, svgSize) :
                            i \in 1..Len(shownRoute.coordinates)}
                   ELSE {})

\* MiniMap observed in isolation (MiniMapSpec): props on the corners of a
\* rectangle, so that two of them can share a latitude, a longitude or both;
\* no route, the direct route, or a route through a point in between.
MapCorners == {Loc(lat, lng) : lat \in {0, 57}, lng \in {0, 76}}

RoutesShown(currentLocation, dest) ==
    {Null} \cup
    (IF currentLocation = Null THEN {}
     ELSE {createDirectRoute(currentLocation, dest),
           [createDirectRoute(currentLocation, dest)
               EXCEPT !.coordinates = <<currentLocation, Loc(30, 40), dest>>]})

MiniMapInit ==
    /\ InitApp
    /\ \E currentLocation \in MapCorners \cup {Null}, dest \in MapCorners :
          \E shownRoute \in RoutesShown(currentLocation, dest) :
             call = [state |-> "due", currentLocation |-> currentLocation,
                     destination |-> dest, route |-> shownRoute, positions |-> {}]

\* MiniMap renders.
MiniMapRender ==
    /\ call.state = "due"
    /\ call' = [call EXCEPT
                  !.state = "rendered",
                  !.positions = MiniMapPositions(call.currentLocation, call.destination,
                                                 call.route)]
    /\ UNCHANGED <<appVars, camVars, geoVars, viewVars, runVars, histVars>>

MiniMapNext == MiniMapRender

MiniMapSpec == MiniMapInit /\ [][MiniMapNext]_vars

----------------------------------------------------------------------------
(* Properties of calculateRoute (RouterSpec).                              *)

Settled == call.state \in {"fulfilled", "rejected"}

IsLocation(l) == DOMAIN l = {"latitude", "longitude"}

IsRoute(r) ==
    /\ DOMAIN r = {"coordinates", "distance", "duration", "steps"}
    /\ \A i \in 1..Len(r.coordinates) : IsLocation(r.coordinates[i])
    /\ \A i \in 1..Len(r.steps) :
          /\ DOMAIN r.steps[i] = {"instruction", "distance", "duration", "coordinate"}
          /\ IsLocation(r.steps[i].coordinate)

\* C1: calculateRoute never rejects: for every outcome of the remote request
\* (network error, non-OK response, no JSON, missing or empty routes, a
\* payload that lacks a property, a well-formed payload) its promise is
\* fulfilled, with a value that has the shape of a Route.
C1_NeverRejects ==
    /\ call.state # "rejected"
    /\ call.state = "fulfilled" => IsRoute(call.value)

C1_Witness ==
    /\ call.state = "fulfilled"
    /\ call.response = NetworkError
    /\ IsRoute(call.value)

\* The direct route from start to end, as sections 4.2 and 8 of the
\* specification give it.
DirectRouteOf(start, end) ==
    LET d == TurfDistance(start, end)
        t == (d * 10) \div 14
    IN [coordinates |-> <<start, end>>,
        distance    |-> d,
        duration    |-> t,
        steps       |-> <<[instruction |-> "Head towards destination",
                           distance |-> d, duration |-> t, coordinate |-> end]>>]

\* The outcomes on which calculateRoute falls back.
FallbackCauses(start, end) ==
    Failures \cup {Lacking(start, end)[k] : k \in {"geometry", "legs", "steps", "maneuver", "location"}}

\* C2: whenever calculateRoute falls back, the Route it returns depends on
\* (start, end) only: coordinates = [start, end], distance = distance(start,
\* end), duration = distance / 1.4, and one step 'Head towards destination'
\* with the total distance and duration, at end.
C2_FallbackIsDirectRoute ==
    (Settled /\ call.response \in FallbackCauses(call.start, call.end))
        => call.value = DirectRouteOf(call.start, call.end)

C2_Witness ==
    /\ call.state = "fulfilled"
    /\ call.response = NotOk
    /\ call.start = Loc(300, 400) /\ call.end = Loc(0, 0)
    /\ call.value.distance = 500 /\ call.value.duration = 357
    /\ call.value.steps[1].coordinate = Loc(0, 0)

\* The properties of the payload the interface section names.
NamedKinds == {"geometry", "distance", "duration", "steps",
               "instruction", "location", "stepDistance", "stepDuration"}
ThrowingKinds == {"geometry", "steps", "location"}

PassedThrough(k, r) ==
    /\ r.coordinates = <<call.start, Via(call.start, call.end), call.end>>
    /\ Len(r.steps) = 2
    /\ CASE k = "distance"     -> r.distance = Undefined
         [] k = "duration"     -> r.duration = Undefined
         [] k = "stepDistance" -> r.steps[2].distance = Undefined
         [] k = "stepDuration" -> r.steps[2].duration = Undefined
         [] k = "instruction"  -> r.steps[2].instruction = "Continue straight"

Readable(c) ==
    /\ ~IsAbsent(c.geometry)
    /\ ~IsAbsent(c.legs)
    /\ ~IsAbsent(Get(c.legs)[1].steps)
    /\ \A i \in 1..Len(Get(Get(c.legs)[1].steps)) :
          LET step == Get(Get(c.legs)[1].steps)[i]
          IN ~IsAbsent(step.maneuver) /\ ~IsAbsent(Get(step.maneuver).location)

\* The Route the claim describes for candidate c.
RouteOfCandidate(c) ==
    LET geometry == Get(c.geometry).coordinates
        steps    == Get(Get(c.legs)[1].steps)
    IN [coordinates |-> [i \in 1..Len(geometry) |->
                            Loc(geometry[i][2], geometry[i][1])],
        distance    |-> c.distance,
        duration    |-> c.duration,
        steps       |-> [i \in 1..Len(steps) |->
                            LET m == Get(steps[i].maneuver)
                            IN [instruction |-> IF m.instruction \in {UndefinedStr, ""}
                                                THEN "Continue straight"
                                                ELSE m.instruction,
                                distance    |-> steps[i].distance,
                                duration    |-> steps[i].duration,
                                coordinate  |-> Loc(Get(m.location)[2], Get(m.location)[1])]]]

\* C18: for a successful response with at least one candidate (one that can
\* be read, see C3) the Route is built from the first candidate alone: its
\* geometry in order with longitude and latitude swapped into Location, its
\* distance and duration, one step per step of legs[0] in order, and
\* "Continue straight" where the service gives no instruction.
C18_BuiltFromFirstCandidate ==
    (/\ Settled
     /\ call.response.fetch = "resolves" /\ call.response.ok
     /\ call.response.json = "parses"
     /\ ~IsAbsent(call.response.routes)
     /\ Len(Get(call.response.routes)) >= 1
     /\ Readable(Get(call.response.routes)[1]))
        => /\ call.state = "fulfilled"
           /\ call.value = RouteOfCandidate(Get(call.response.routes)[1])

\* Two candidates, the longer one first.
C18_Witness ==
    /\ Settled
    /\ call.start = Loc(300, 400) /\ call.end = Loc(0, 0)
    /\ ~IsAbsent(call.response.routes)
    /\ Len(Get(call.response.routes)) = 2
    /\ call.value.coordinates = <<Loc(300, 400), Loc(0, 0)>>
    /\ call.value.distance = 900
    /\ Len(call.value.steps) = 1
    /\ call.value.steps[1].instruction = "Go"

----------------------------------------------------------------------------
(* Properties of a navigation session (Spec, FairSpec).                    *)

\* C4, as claimed: in one navigation session the router is invoked exactly
\* once, when the first position is known; later fixes and heading samples
\* do not invoke it again.
C4_RouterInvokedOnce ==
    (Mounted /\ Idle /\ location # Null) => routerCalls = 1

\* C5: within a session hasArrived never goes back to false, whatever fixes,
\* heading samples and route resolutions follow; the session leaves the
\* arrived state only by the back action, which ends it.
C5_ArrivalMonotonic ==
    [][(Mounted /\ hasArrived)
          => \/ Mounted' /\ hasArrived'
             \/ appState' = "map-picker" /\ destination' = Null]_vars

C5_Witness ==
    /\ Mounted /\ Idle /\ hasArrived
    /\ route # Null
    /\ navState.currentHeading = 90
    /\ navState.distanceToDestination >= ArrivalThreshold

\* C6: once the effects of a fix have run, hasArrived is true exactly if
\* some position of the session (the one at mount included) was strictly
\* less than 10 m from the destination; 10 m itself does not count.
C6_ArrivedIffWasNear ==
    (Mounted /\ Idle) => (hasArrived <=> wasNear)

C6_Witness ==
    /\ Mounted /\ Idle /\ hasArrived
    /\ destination = Loc(0, 0) /\ location = Loc(57, 76)
    /\ navState.distanceToDestination = 95

\* C7: setHasArrived(true) is called at most once in a session, and after
\* arrival every fix still updates navState.distanceToDestination (and
\* currentLocation) from the new position.
C7_ArrivalOneShot ==
    /\ Mounted => arrivals <= 1
    /\ (Mounted /\ Idle /\ hasArrived)
          => /\ navState.currentLocation = location
             /\ navState.distanceToDestination = TurfDistance(location, destination)

C7_Witness ==
    /\ Mounted /\ Idle /\ hasArrived /\ arrivals = 1
    /\ destination = Loc(0, 0) /\ location = Loc(300, 400)
    /\ navState.distanceToDestination = 500

\* C8, as claimed: a session never stays in route computing for ever, also
\* when the routing service never answers.
C8_RouteComputingEnds ==
    (Mounted /\ isCalculatingRoute)
        ~> (~Mounted \/ (route # Null /\ ~isCalculatingRoute))

\* C9: a response to a request of an earlier session, whenever it settles,
\* changes nothing of the state of the session that is mounted now.
C9_StaleResponseIgnored ==
    [][\A r \in BagToSet(pending) :
          (~r.live /\ pending' = pending (-) SetToBag({r}))
              => UNCHANGED viewVars]_vars

C9_Witness ==
    /\ Mounted /\ Idle /\ staleSettled
    /\ isCalculatingRoute /\ route = Null

\* C10: the back action from the navigation screen ends the session with
\* destination = null on the destination-selection screen, and a session
\* starts with route = null, hasArrived = false, isCalculatingRoute = true,
\* currentStepIndex = 0 and distanceToDestination = 0.
C10_BackDiscardsSession ==
    [][/\ (Mounted /\ ~Mounted')
            => appState' = "map-picker" /\ destination' = Null
       /\ (~Mounted /\ Mounted')
            => /\ route' = Null /\ navState'.route = Null
               /\ ~hasArrived'
               /\ isCalculatingRoute'
               /\ navState'.currentStepIndex = 0
               /\ navState'.distanceToDestination = 0]_vars

\* A second session has just been mounted; a request of the first is
\* still in flight.
C10_Witness ==
    /\ Mounted /\ routerCalls = 0
    /\ \E r \in BagToSet(pending) : ~r.live
    /\ route = Null /\ ~hasArrived /\ isCalculatingRoute
    /\ navState.distanceToDestination = 0

\* C11: fixes and heading samples are applied whether or not a route is
\* there: once the effects of an event have run, navState.currentLocation,
\* currentHeading and distanceToDestination are those of the latest fix and
\* heading, also while route is null; and a step that settles a route
\* request leaves these three fields (and hasArrived) as they were.
C11_FixesIndependentOfRoute ==
    [][/\ (Mounted' /\ Idle')
            => /\ navState'.currentLocation = location'
               /\ navState'.currentHeading = heading'
               /\ navState'.distanceToDestination = TurfDistance(location', destination')
       /\ (Mounted /\ BagCardinality(pending') < BagCardinality(pending))
            => /\ navState'.currentLocation = navState.currentLocation
               /\ navState'.currentHeading = navState.currentHeading
               /\ navState'.distanceToDestination = navState.distanceToDestination
               /\ hasArrived' = hasArrived]_vars

\* A second fix and a heading sample have been applied while the first
\* route request is still unanswered.
C11_Witness ==
    /\ Mounted /\ Idle
    /\ route = Null /\ isCalculatingRoute /\ routerCalls = 2
    /\ navState.currentLocation = Loc(60, 80)
    /\ navState.distanceToDestination = 100
    /\ navState.currentHeading = 90

\* The route a request for (start, end) gets from the fallback path.
IsFallbackRoute(r) ==
    /\ Len(r.coordinates) = 2
    /\ r = createDirectRoute(r.coordinates[1], r.coordinates[2])

\* C12, as claimed: whenever the route in state was produced by the fallback
\* path, routeError is set, and it is not set when the remote route was used.
C12_FallbackIsAdvised ==
    (Mounted /\ Idle /\ route # Null)
        => (IsFallbackRoute(route) <=> routeError # NullStr)

\* C13: with the current position equal to the destination the distance is
\* 0, calculateBearing gives 0 and the fallback route has two equal
\* endpoints; a session that starts there is arrived as soon as the effects
\* of its first render have run, with no further fix.
C13_StartAtDestination ==
    /\ \A p \in Places \cup FixLocs :
          /\ calculateDistance(p, p) = 0
          /\ calculateBearing(p, p) = 0
          /\ createDirectRoute(p, p).coordinates = <<p, p>>
          /\ createDirectRoute(p, p).distance = 0
    /\ (Mounted /\ Idle /\ location = destination)
          => /\ hasArrived
             /\ navState.distanceToDestination = 0
             /\ route # Null /\ IsFallbackRoute(route) /\ routerCalls = 1
                   => route.coordinates = <<destination, destination>>

\* The session was started at the destination, no fix has followed, and the
\* route request has been answered by the fallback.
C13_Witness ==
    /\ Mounted /\ Idle /\ location = destination
    /\ routerCalls = 1 /\ arrivals = 1 /\ hasArrived
    /\ navState.distanceToDestination = 0
    /\ route # Null /\ route.coordinates = <<destination, destination>>


\* C16, as claimed: when permissions were requested, camera access is not
\* granted and a position is available, the app still leaves the permission
\* screen.
C16_LimitedPermissionsSuffice ==
    (appState = "permissions" /\ permissionsRequested
        /\ location # Null /\ ~cameraPermission /\ IsAbsent(permissionCall))
      ~> appState # "permissions"

C19_LastFixWins ==
    [][(Mounted /\ Mounted')
          => /\ Idle' => /\ navState'.currentLocation = location'
                         /\ navState'.distanceToDestination
                               = TurfDistance(location', destination')
             /\ navState'.currentLocation \in {navState.currentLocation, location'}]_vars

\* After a fix within 10 m, a fix farther away has been delivered and applied.
C19_Witness ==
    /\ Mounted /\ Idle /\ hasArrived /\ routerCalls = 2
    /\ destination = Loc(0, 0) /\ location = Loc(60, 80)
    /\ navState.currentLocation = Loc(60, 80)
    /\ navState.distanceToDestination = 100

C23_LatestRequestWins ==
    (/\ Mounted /\ Idle /\ route # Null
     /\ ~\E r \in BagToSet(pending) : r.live)
        => route.coordinates[1] = location

\* C24, as claimed: once the effects of an event have run,
\* isCalculatingRoute is true exactly if a route request of the session is
\* in flight.
C24_CalculatingIffPending ==
    (Mounted /\ Idle)
        => (isCalculatingRoute <=> \E r \in BagToSet(pending) : r.live)

\* C25, as claimed: after the back action on the destination-selection
\* screen the app is on the permission screen and leaves it only after the
\* user has asked for permissions again.
C25_BackStaysOnPermissions ==
    /\ [][(appState = "map-picker" /\ appState' # "map-picker" /\ destination' = Null)
            => appState' = "permissions"]_vars
    /\ [][(appState = "permissions" /\ appState' # "permissions") => ~backed]_vars

\* C26: in every reachable state of App, appState = 'navigation' implies
\* that destination is not null, and appState in {'map-picker',
\* 'navigation'} implies that a position is known and that permissions were
\* requested.
C26_ScreensHaveWhatTheyNeed ==
    /\ appState = "navigation" => destination # Null
    /\ appState \in {"map-picker", "navigation"}
          => location # Null /\ permissionsRequested

\* Back on destination selection after a session, a request of which is
\* still in flight, with the camera permission lost in between or not.
C26_Witness ==
    /\ appState = "map-picker" /\ destination = Null
    /\ location # Null /\ permissionsRequested
    /\ locationError = NullStr
    /\ \E r \in BagToSet(pending) : ~r.live

InMap(v) == 10 <= v /\ v <= svgSize - 10

\* C28 in the application: whenever NavigationView is on screen, what its
\* MiniMap draws lies within [10, 118] in x and in y.
C28_ProjectionInMapInApp ==
    Mounted => \A pos \in MiniMapPositions(location, destination, route) :
                  InMap(pos.x) /\ InMap(pos.y)

----------------------------------------------------------------------------
(* Properties of NavigationView without a position (ViewSpec).             *)

\* C15: while no position is known, a mounted NavigationView has not called
\* the router, has left distanceToDestination at 0 and hasArrived false;
\* heading is 0 until a heading sample changes it; and a position request
\* that has failed or cannot be made shows as locationError, nothing more.
C15_NoPositionDefers ==
    /\ [](location = Null
            => /\ routerCalls = 0 /\ pending = EmptyBag
               /\ route = Null
               /\ navState.distanceToDestination = 0
               /\ ~hasArrived /\ arrivals = 0
               /\ positionRequest # "outstanding" => locationError # NullStr)
    /\ [][(location = Null /\ location' = Null /\ heading' # heading)
              => heading' \in {0, 90}]_vars

\* The position request has failed and a compass sample has come in.
C15_Witness ==
    /\ Mounted /\ Idle /\ location = Null
    /\ positionRequest = "done" /\ locationError = "Location request failed"
    /\ heading = 90
    /\ navState.distanceToDestination = 0 /\ isCalculatingRoute

----------------------------------------------------------------------------
(* Properties of the arrow rotation (ArrowSpec).                           *)

InTurn(a) == 0 <= a /\ a < 360

----------------------------------------------------------------------------
(* Properties of useGeolocation (HeadingSpec).                             *)

\* C22, as claimed: the heading held by useGeolocation is in [0, 360) in
\* every reachable state, whatever orientation events and fixes arrive.
C22_HeadingInTurn == InTurn(heading)

----------------------------------------------------------------------------
(* Properties of MapPicker's search (PickerSpec).                          *)

\* Characters of a query that are not blanks.
NonBlank(query) == Cardinality({i \in 1..Len(query) : query[i] # " "})

\* C27, first clause: a search is started only by a timer that has run its
\* 500 ms for the query the box still holds.
C27_Debounced ==
    [][call'.calls > call.calls
          => /\ call.timer.armed
             /\ call.timer.elapsed >= DebounceMs
             /\ call.timer.query = call.searchQuery]_vars

\* C27, second clause: a query of fewer than 3 non-blank characters has an
\* empty result list.
C27_ShortQueryEmpty ==
    NonBlank(call.searchQuery) < 3 => call.searchResults = <<>>

\* The search for the query in the box has run and has settled: no timer is
\* armed and the last handleSearch call has no request in flight.
LatestSearchSettled ==
    /\ ~call.timer.armed
    /\ \A request \in call.inflight : request.seq < call.calls

\* C27: the results shown by MapPicker belong to the latest query: once the
\* search for the query in the box has run and settled, every result in the
\* list is a place found for that query, whatever older requests do later.
C27_ResultsOfLatestQuery ==
    LatestSearchSettled
       => \A i \in 1..Len(call.searchResults) :
             call.searchResults[i].display_name = call.searchQuery

----------------------------------------------------------------------------
(* Properties of MiniMap (MiniMapSpec).                                    *)

\* Do latitudes and longitudes both vary over what MiniMap shows
MiniMapSpread ==
    LET bounds == getBounds(call.currentLocation, call.destination, call.route)
    IN  bounds.maxLat # bounds.minLat /\ bounds.maxLng # bounds.minLng

\* C28: for every current location, destination and route shown by MiniMap,
\* the current location, the destination and every route point are projected
\* to x and y within [10, 118]; no divisor is zero, also when the points
\* share a latitude or a longitude or are equal.
C28_ProjectionInMap ==
    call.state = "rendered"
       => \A pos \in call.positions : InMap(pos.x) /\ InMap(pos.y)

\* C28 where it does hold: when both the latitudes and the longitudes vary.
C28_ProjectionInMapWhenSpread ==
    call.state = "rendered" /\ call.currentLocation # Null /\ MiniMapSpread
       => /\ call.positions # {}
          /\ \A pos \in call.positions : InMap(pos.x) /\ InMap(pos.y)

====
